---- MODULE Spec2Model ----
(***************************************************************************)
(* A model of scripts/pycount.py: the identifier-occurrence visitor        *)
(* (class Visitor), process_file and the driver loop of main.              *)
(*                                                                         *)
(* The run is a small-step machine.  The recursion of the visitor is held  *)
(* in `stack`, a sequence of pending calls (visit a node, generic_visit a  *)
(* node, write one row); one action executes the call on top.  The csv     *)
(* writer is the sink: each writerow either appends a row to `out` or      *)
(* raises, and nothing in the program catches what it raises.  `sink`      *)
(* counts the writerow calls and records whether one raised; `visitLog`    *)
(* lists the visit calls made; `diag` is what main prints to stderr.       *)
(***************************************************************************)
EXTENDS Integers, Sequences, FiniteSets, TLC

VARIABLES batch, cur, status, root, stack, out, sink, visitLog, diag

vars == <<batch, cur, status, root, stack, out, sink, visitLog, diag>>

(***************************************************************************)
(* Strings.  A Python str is a sequence of one-character strings, so that  *)
(* str.split and len are computed; None is a value no str is equal to.     *)
(***************************************************************************)
None == <<"<None>">>

Truthy(s) == s # None /\ s # <<>>

RECURSIVE SplitAcc(_, _, _)
SplitAcc(s, i, part) ==
    IF i > Len(s) THEN <<part>>
    ELSE IF s[i] = "." THEN <<part>> \o SplitAcc(s, i + 1, <<>>)
    ELSE SplitAcc(s, i + 1, Append(part, s[i]))

\* s.split(".")
Split(s) == SplitAcc(s, 1, <<>>)

RECURSIVE Join(_)
\* ".".join(parts)
Join(parts) ==
    IF Len(parts) = 0 THEN <<>>
    ELSE IF Len(parts) = 1 THEN parts[1]
    ELSE parts[1] \o <<".">> \o Join(Tail(parts))

(***************************************************************************)
(* The node kinds of the ast module that the model's programs use.  A      *)
(* node is a record of its kind and its fields, named as in ast; NoNode    *)
(* stands for an absent (None) child node.                                 *)
(***************************************************************************)
NoNode == [kind |-> "None"]

Load == [kind |-> "Load"]
Add == [kind |-> "Add"]

Module(body) == [kind |-> "Module", body |-> body]
Expr(value) == [kind |-> "Expr", value |-> value]
Return(value) == [kind |-> "Return", value |-> value]
Pass == [kind |-> "Pass"]
If(test, body, orelse) == [kind |-> "If", test |-> test, body |-> body, orelse |-> orelse]
Name(id) == [kind |-> "Name", id |-> id, ctx |-> Load]
Constant == [kind |-> "Constant"]
BinOp(left, right) == [kind |-> "BinOp", left |-> left, op |-> Add, right |-> right]
Attribute(value, attr) == [kind |-> "Attribute", value |-> value, attr |-> attr, ctx |-> Load]
Call(func, args, keywords) == [kind |-> "Call", func |-> func, args |-> args, keywords |-> keywords]
keyword(arg, value) == [kind |-> "keyword", arg |-> arg, value |-> value]
Lambda(args, body) == [kind |-> "Lambda", args |-> args, body |-> body]
Import(names) == [kind |-> "Import", names |-> names]
ImportFrom(module, names, level) ==
    [kind |-> "ImportFrom", module |-> module, names |-> names, level |-> level]
alias(name, asname) == [kind |-> "alias", name |-> name, asname |-> asname]
FunctionDef(kind, name, args, body, decorator_list, returns) ==
    [kind |-> kind, name |-> name, args |-> args, body |-> body,
     decorator_list |-> decorator_list, returns |-> returns]
arguments(posonlyargs, args, vararg, kwonlyargs, kw_defaults, kwarg, defaults) ==
    [kind |-> "arguments", posonlyargs |-> posonlyargs, args |-> args, vararg |-> vararg,
     kwonlyargs |-> kwonlyargs, kw_defaults |-> kw_defaults, kwarg |-> kwarg,
     defaults |-> defaults]
arg(name, annotation) == [kind |-> "arg", arg |-> name, annotation |-> annotation]
ClassDef(name, bases, keywords, body) ==
    [kind |-> "ClassDef", name |-> name, bases |-> bases, keywords |-> keywords,
     body |-> body, decorator_list |-> <<>>]
Global(names) == [kind |-> "Global", names |-> names]
Nonlocal(names) == [kind |-> "Nonlocal", names |-> names]
Match(subject, cases) == [kind |-> "Match", subject |-> subject, cases |-> cases]
match_case(pattern, body) ==
    [kind |-> "match_case", pattern |-> pattern, guard |-> NoNode, body |-> body]
MatchAs(pattern, name) == [kind |-> "MatchAs", pattern |-> pattern, name |-> name]
MatchValue(value) == [kind |-> "MatchValue", value |-> value]
MatchSequence(patterns) == [kind |-> "MatchSequence", patterns |-> patterns]
MatchStar(name) == [kind |-> "MatchStar", name |-> name]

(***************************************************************************)
(* The front end, ast.parse: it gives each node that has one its lineno    *)
(* and col_offset.  The programs are laid out the way their text is        *)
(* written: a list's items two columns apart, a block's statements on the  *)
(* following lines four columns in.                                        *)
(***************************************************************************)
At(node, l, c) ==
    [f \in DOMAIN node \cup {"lineno", "col_offset"} |->
        IF f = "lineno" THEN l ELSE IF f = "col_offset" THEN c ELSE node[f]]

StrLen(s) == IF s = None THEN 0 ELSE Len(s)

RECURSIVE Width(_)
RECURSIVE WidthSeq(_)
\* The number of columns the text of an expression, pattern or list item takes.
Width(n) ==
    CASE n.kind = "Name" -> Len(n.id)
      [] n.kind = "Constant" -> 1
      [] n.kind = "Attribute" -> Width(n.value) + 1 + Len(n.attr)
      [] n.kind = "BinOp" -> Width(n.left) + 3 + Width(n.right)
      [] n.kind = "Call" -> Width(n.func) + 2 + WidthSeq(n.args \o n.keywords)
      [] n.kind = "keyword" ->
            (IF n.arg = None THEN 2 ELSE Len(n.arg) + 1) + Width(n.value)
      [] n.kind = "Lambda" -> 7 + WidthSeq(n.args.args) + 2 + Width(n.body)
      [] n.kind = "alias" ->
            Len(n.name) + (IF n.asname = None THEN 0 ELSE 4 + Len(n.asname))
      [] n.kind = "arg" ->
            Len(n.arg) + (IF n.annotation = NoNode THEN 0 ELSE 2 + Width(n.annotation))
      [] n.kind = "MatchAs" ->
            IF n.pattern = NoNode
            THEN (IF n.name = None THEN 1 ELSE Len(n.name))
            ELSE Width(n.pattern) + 4 + Len(n.name)
      [] n.kind = "MatchValue" -> Width(n.value)
      [] n.kind = "MatchSequence" -> 2 + WidthSeq(n.patterns)
      [] n.kind = "MatchStar" -> 1 + (IF n.name = None THEN 1 ELSE Len(n.name))
      [] OTHER -> 0

WidthSeq(s) ==
    IF Len(s) = 0 THEN 0
    ELSE IF Len(s) = 1 THEN Width(s[1])
    ELSE Width(s[1]) + 2 + WidthSeq(Tail(s))

RECURSIVE Height(_)
RECURSIVE HeightSeq(_)
\* The number of lines a statement takes.
Height(n) ==
    CASE n.kind \in {"FunctionDef", "AsyncFunctionDef"} ->
            Len(n.decorator_list) + 1 + HeightSeq(n.body)
      [] n.kind = "ClassDef" -> 1 + HeightSeq(n.body)
      [] n.kind = "If" ->
            1 + HeightSeq(n.body)
              + (IF Len(n.orelse) = 0 THEN 0 ELSE 1 + HeightSeq(n.orelse))
      [] n.kind = "Match" -> 1 + HeightSeq(n.cases)
      [] n.kind = "match_case" -> 1 + HeightSeq(n.body)
      [] OTHER -> 1

HeightSeq(s) == IF Len(s) = 0 THEN 0 ELSE Height(s[1]) + HeightSeq(Tail(s))

\* One parameter of a signature as written: its prefix ("", "*" or "**"), its
\* arg node and its default (NoNode when it has none).
Param(pre, a, d) == [pre |-> pre, arg |-> a, default |-> d]

ParamWidth(p) ==
    p.pre + (IF p.arg = NoNode THEN 0 ELSE Width(p.arg))
          + (IF p.default = NoNode THEN 0 ELSE 1 + Width(p.default))

RECURSIVE ParamCol(_, _, _)
\* The column where the i-th entry of a signature starts.
ParamCol(ps, i, c) ==
    IF i = 1 THEN c ELSE ParamCol(ps, i - 1, c) + ParamWidth(ps[i - 1]) + 2

\* The default of the k-th positional parameter: defaults belong to the last
\* Len(defaults) of posonlyargs \o args.
DefaultOf(a, k) ==
    LET P == Len(a.posonlyargs) + Len(a.args)
        j == k - (P - Len(a.defaults))
    IN  IF j >= 1 THEN a.defaults[j] ELSE NoNode

\* The entries of a signature in the order they are written; "/" and a bare
\* "*" are entries without an arg.
Signature(a) ==
    LET P == Len(a.posonlyargs) IN
    [i \in 1..P |-> Param(0, a.posonlyargs[i], DefaultOf(a, i))]
    \o (IF P > 0 THEN <<Param(1, NoNode, NoNode)>> ELSE <<>>)
    \o [i \in 1..Len(a.args) |-> Param(0, a.args[i], DefaultOf(a, P + i))]
    \o (IF a.vararg # NoNode THEN <<Param(1, a.vararg, NoNode)>>
        ELSE IF Len(a.kwonlyargs) > 0 THEN <<Param(1, NoNode, NoNode)>> ELSE <<>>)
    \o [i \in 1..Len(a.kwonlyargs) |-> Param(0, a.kwonlyargs[i], a.kw_defaults[i])]
    \o (IF a.kwarg # NoNode THEN <<Param(2, a.kwarg, NoNode)>> ELSE <<>>)

SignatureWidth(a) ==
    LET ps == Signature(a) IN
    IF Len(ps) = 0 THEN 0 ELSE ParamCol(ps, Len(ps), 0) + ParamWidth(ps[Len(ps)])

RECURSIVE Locate(_, _, _)
RECURSIVE LocateSeq(_, _, _)
RECURSIVE LocateBody(_, _, _)

\* The arguments node of a signature whose first entry starts at column c.
LocateArguments(a, l, c) ==
    LET ps == Signature(a)
        P == Len(a.posonlyargs)
        A == Len(a.args)
        sep == IF P > 0 THEN 1 ELSE 0
        star == IF a.vararg # NoNode \/ Len(a.kwonlyargs) > 0 THEN 1 ELSE 0
        argAt(i) ==
            IF ps[i].arg = NoNode THEN NoNode
            ELSE Locate(ps[i].arg, l, ParamCol(ps, i, c) + ps[i].pre)
        defAt(i) ==
            IF ps[i].default = NoNode THEN NoNode
            ELSE Locate(ps[i].default, l,
                        ParamCol(ps, i, c) + ps[i].pre + Width(ps[i].arg) + 1)
        posDefs == [i \in 1..(P + A) |-> defAt(IF i <= P THEN i ELSE i + sep)]
    IN  [kind |-> "arguments",
         posonlyargs |-> [i \in 1..P |-> argAt(i)],
         args |-> [i \in 1..A |-> argAt(P + sep + i)],
         vararg |-> IF a.vararg = NoNode THEN NoNode ELSE argAt(P + sep + A + 1),
         kwonlyargs |-> [i \in 1..Len(a.kwonlyargs) |-> argAt(P + sep + A + star + i)],
         kw_defaults |-> [i \in 1..Len(a.kwonlyargs) |-> defAt(P + sep + A + star + i)],
         kwarg |-> IF a.kwarg = NoNode THEN NoNode ELSE argAt(Len(ps)),
         defaults |-> SubSeq(posDefs, P + A - Len(a.defaults) + 1, P + A)]

\* ast.parse of the text of n that starts at line l, column c.
Locate(n, l, c) ==
    CASE n.kind = "Module" -> [n EXCEPT !.body = LocateBody(n.body, 1, 0)]
      [] n.kind = "Expr" -> At([n EXCEPT !.value = Locate(n.value, l, c)], l, c)
      [] n.kind = "Return" ->
            At([n EXCEPT !.value = Locate(n.value, l, c + 7)], l, c)
      [] n.kind = "If" ->
            At([n EXCEPT !.test = Locate(n.test, l, c + 3),
                         !.body = LocateBody(n.body, l + 1, c + 4),
                         !.orelse = LocateBody(n.orelse, l + 2 + HeightSeq(n.body), c + 4)],
               l, c)
      [] n.kind = "Attribute" ->
            At([n EXCEPT !.value = Locate(n.value, l, c)], l, c)
      [] n.kind = "BinOp" ->
            At([n EXCEPT !.left = Locate(n.left, l, c),
                         !.right = Locate(n.right, l, c + Width(n.left) + 3)], l, c)
      [] n.kind = "Call" ->
            LET items == LocateSeq(n.args \o n.keywords, l, c + Width(n.func) + 1) IN
            At([n EXCEPT !.func = Locate(n.func, l, c),
                         !.args = SubSeq(items, 1, Len(n.args)),
                         !.keywords = SubSeq(items, Len(n.args) + 1, Len(items))], l, c)
      [] n.kind = "keyword" ->
            At([n EXCEPT !.value =
                    Locate(n.value, l, c + (IF n.arg = None THEN 2 ELSE Len(n.arg) + 1))],
               l, c)
      [] n.kind = "Lambda" ->
            At([n EXCEPT !.args = LocateArguments(n.args, l, c + 7),
                         !.body = Locate(n.body, l, c + 7 + SignatureWidth(n.args) + 2)],
               l, c)
      [] n.kind = "Import" ->
            At([n EXCEPT !.names = LocateSeq(n.names, l, c + 7)], l, c)
      [] n.kind = "ImportFrom" ->
            At([n EXCEPT !.names =
                    LocateSeq(n.names, l, c + 5 + n.level + StrLen(n.module) + 8)], l, c)
      [] n.kind \in {"FunctionDef", "AsyncFunctionDef"} ->
            LET D == Len(n.decorator_list)
                open == c + (IF n.kind = "FunctionDef" THEN 4 ELSE 10) + Len(n.name) + 1
            IN  At([n EXCEPT !.args = LocateArguments(n.args, l + D, open),
                             !.body = LocateBody(n.body, l + D + 1, c + 4),
                             !.decorator_list =
                                 [i \in 1..D |-> Locate(n.decorator_list[i], l + i - 1, c + 1)],
                             !.returns =
                                 Locate(n.returns, l + D, open + SignatureWidth(n.args) + 5)],
                   l + D, c)
      [] n.kind = "arg" ->
            At([n EXCEPT !.annotation = Locate(n.annotation, l, c + Len(n.arg) + 2)], l, c)
      [] n.kind = "ClassDef" ->
            LET items == LocateSeq(n.bases \o n.keywords, l, c + 6 + Len(n.name) + 1) IN
            At([n EXCEPT !.bases = SubSeq(items, 1, Len(n.bases)),
                         !.keywords = SubSeq(items, Len(n.bases) + 1, Len(items)),
                         !.body = LocateBody(n.body, l + 1, c + 4)], l, c)
      [] n.kind = "Match" ->
            At([n EXCEPT !.subject = Locate(n.subject, l, c + 6),
                         !.cases = LocateBody(n.cases, l + 1, c + 4)], l, c)
      [] n.kind = "match_case" ->
            [n EXCEPT !.pattern = Locate(n.pattern, l, c + 5),
                      !.body = LocateBody(n.body, l + 1, c + 4)]
      [] n.kind = "MatchAs" ->
            At([n EXCEPT !.pattern = Locate(n.pattern, l, c)], l, c)
      [] n.kind = "MatchValue" ->
            At([n EXCEPT !.value = Locate(n.value, l, c)], l, c)
      [] n.kind = "MatchSequence" ->
            At([n EXCEPT !.patterns = LocateSeq(n.patterns, l, c + 1)], l, c)
      [] n.kind \in {"None", "Load", "Add", "arguments"} -> n
      [] OTHER -> At(n, l, c)

\* The items of a comma-separated list, the first at column c.
LocateSeq(s, l, c) ==
    IF Len(s) = 0 THEN <<>>
    ELSE <<Locate(s[1], l, c)>> \o LocateSeq(Tail(s), l, c + Width(s[1]) + 2)

\* The statements of a block, the first at line l, all at column c.
LocateBody(s, l, c) ==
    IF Len(s) = 0 THEN <<>>
    ELSE <<Locate(s[1], l, c)>> \o LocateBody(Tail(s), l + Height(s[1]), c)

parse(contents) == Locate(contents, 1, 0)


(***************************************************************************)
(* Paths.  A node of the tree is named by the path from the root to it: a  *)
(* sequence of steps, each a field and, for a list field, an index (0 for  *)
(* a field that holds one node).                                           *)
(***************************************************************************)
Step(f, i) == [f |-> f, i |-> i]

Get(n, s) == IF s.i = 0 THEN n[s.f] ELSE n[s.f][s.i]

RECURSIVE NodeAt(_, _)
NodeAt(n, p) == IF Len(p) = 0 THEN n ELSE NodeAt(Get(n, p[1]), Tail(p))

Field(f, list) == [f |-> f, list |-> list]

\* ast's _fields of each node class, the fields that hold nodes, in order.
Fields(kind) ==
    CASE kind = "Module" -> <<Field("body", TRUE)>>
      [] kind \in {"Expr", "Return", "keyword", "MatchValue"} -> <<Field("value", FALSE)>>
      [] kind = "If" -> <<Field("test", FALSE), Field("body", TRUE), Field("orelse", TRUE)>>
      [] kind = "Name" -> <<Field("ctx", FALSE)>>
      [] kind = "Attribute" -> <<Field("value", FALSE), Field("ctx", FALSE)>>
      [] kind = "BinOp" -> <<Field("left", FALSE), Field("op", FALSE), Field("right", FALSE)>>
      [] kind = "Call" -> <<Field("func", FALSE), Field("args", TRUE), Field("keywords", TRUE)>>
      [] kind = "Lambda" -> <<Field("args", FALSE), Field("body", FALSE)>>
      [] kind \in {"Import", "ImportFrom"} -> <<Field("names", TRUE)>>
      [] kind \in {"FunctionDef", "AsyncFunctionDef"} ->
            <<Field("args", FALSE), Field("body", TRUE), Field("decorator_list", TRUE),
              Field("returns", FALSE)>>
      [] kind = "arguments" ->
            <<Field("posonlyargs", TRUE), Field("args", TRUE), Field("vararg", FALSE),
              Field("kwonlyargs", TRUE), Field("kw_defaults", TRUE), Field("kwarg", FALSE),
              Field("defaults", TRUE)>>
      [] kind = "arg" -> <<Field("annotation", FALSE)>>
      [] kind = "ClassDef" ->
            <<Field("bases", TRUE), Field("keywords", TRUE), Field("body", TRUE),
              Field("decorator_list", TRUE)>>
      [] kind = "Match" -> <<Field("subject", FALSE), Field("cases", TRUE)>>
      [] kind = "match_case" ->
            <<Field("pattern", FALSE), Field("guard", FALSE), Field("body", TRUE)>>
      [] kind = "MatchAs" -> <<Field("pattern", FALSE)>>
      [] kind = "MatchSequence" -> <<Field("patterns", TRUE)>>
      [] OTHER -> <<>>

RECURSIVE ListChildren(_, _, _, _)
\* The paths of the nodes in the list n[f] from index i on; a None item is no node.
ListChildren(n, p, f, i) ==
    IF i > Len(n[f]) THEN <<>>
    ELSE (IF n[f][i] = NoNode THEN <<>> ELSE <<Append(p, Step(f, i))>>)
         \o ListChildren(n, p, f, i + 1)

RECURSIVE FieldChildren(_, _, _)
FieldChildren(n, p, fs) ==
    IF Len(fs) = 0 THEN <<>>
    ELSE (IF fs[1].list THEN ListChildren(n, p, fs[1].f, 1)
          ELSE IF n[fs[1].f] = NoNode THEN <<>>
          ELSE <<Append(p, Step(fs[1].f, 0))>>)
         \o FieldChildren(n, p, Tail(fs))

\* The paths of the child nodes of the node n at path p, in the order
\* ast.iter_fields gives them.
Children(n, p) == FieldChildren(n, p, Fields(n.kind))

(***************************************************************************)
(* The pending calls.  `node` is the path of the node the call is given;   *)
(* for a write, `name` is the name written and `by` the node whose visit   *)
(* issued it; `mark` is the number of rows written when the visit that     *)
(* made the call began (generic_visit passes its own on).                  *)
(***************************************************************************)
VisitCall(p) == [op |-> "visit", node |-> p, name |-> None, by |-> p, mark |-> 0]
GenericCall(p) == [op |-> "generic_visit", node |-> p, name |-> None, by |-> p, mark |-> 0]
WriteCall(name, p, by) == [op |-> "_write", node |-> p, name |-> name, by |-> by, mark |-> 0]

RECURSIVE Flatten(_)
Flatten(ss) == IF Len(ss) = 0 THEN <<>> ELSE ss[1] \o Flatten(Tail(ss))

SelectNonEmpty(parts) == SelectSeq(parts, LAMBDA part : part # <<>>)

\* self._write(part, node) for each non-empty part of name.split(".")
write_parts(name, p, by) ==
    LET parts == SelectNonEmpty(Split(name)) IN
    [i \in 1..Len(parts) |-> WriteCall(parts[i], p, by)]

visit_Name(n, p) == <<WriteCall(n.id, p, p), GenericCall(p)>>

_visit_keyword(n, p, by) == IF Truthy(n.arg) THEN <<WriteCall(n.arg, p, by)>> ELSE <<>>

visit_Call(n, p) ==
    Flatten([i \in 1..Len(n.keywords) |->
                _visit_keyword(n.keywords[i], Append(p, Step("keywords", i)), p)])
    \o <<GenericCall(p)>>

\* visit_Attribute with the name written first.
visit_Attribute_preorder(n, p) == <<WriteCall(n.attr, p, p), GenericCall(p)>>

visit_Attribute(n, p) == <<GenericCall(p), WriteCall(n.attr, p, p)>>

\* _visit_alias without the split of the name.
_visit_alias_whole(n, p, by) ==
    (IF Truthy(n.name) THEN <<WriteCall(n.name, p, by)>> ELSE <<>>)
    \o (IF Truthy(n.asname) THEN <<WriteCall(n.asname, p, by)>> ELSE <<>>)

_visit_alias(n, p, by) ==
    (IF Truthy(n.name) THEN write_parts(n.name, p, by) ELSE <<>>)
    \o (IF Truthy(n.asname) THEN <<WriteCall(n.asname, p, by)>> ELSE <<>>)

visit_aliases(n, p) ==
    Flatten([i \in 1..Len(n.names) |->
                _visit_alias(n.names[i], Append(p, Step("names", i)), p)])

visit_Import(n, p) == visit_aliases(n, p) \o <<GenericCall(p)>>

visit_ImportFrom(n, p) ==
    (IF Truthy(n.module) THEN write_parts(n.module, p, p) ELSE <<>>)
    \o visit_aliases(n, p)
    \o <<GenericCall(p)>>

visit_MatchAs(n, p) == <<WriteCall(n.name, p, p), GenericCall(p)>>

_visit_arg(a, p, by) == IF a = NoNode THEN <<>> ELSE <<WriteCall(a.arg, p, by)>>

visit_args(a, p, f, by) ==
    Flatten([i \in 1..Len(a[f]) |-> _visit_arg(a[f][i], Append(p, Step(f, i)), by)])

visit_defaults(a, p, f) ==
    Flatten([i \in 1..Len(a[f]) |->
                IF a[f][i] # NoNode THEN <<VisitCall(Append(p, Step(f, i)))>> ELSE <<>>])

\* _visit_arguments with kwarg written with the other parameter names, before
\* the keyword-only defaults.
_visit_arguments_kwarg_early(a, p, by) ==
    visit_args(a, p, "posonlyargs", by)
    \o visit_args(a, p, "args", by)
    \o _visit_arg(a.vararg, Append(p, Step("vararg", 0)), by)
    \o visit_defaults(a, p, "defaults")
    \o visit_args(a, p, "kwonlyargs", by)
    \o _visit_arg(a.kwarg, Append(p, Step("kwarg", 0)), by)
    \o visit_defaults(a, p, "kw_defaults")

_visit_arguments(a, p, by) ==
    visit_args(a, p, "posonlyargs", by)
    \o visit_args(a, p, "args", by)
    \o _visit_arg(a.vararg, Append(p, Step("vararg", 0)), by)
    \o visit_defaults(a, p, "defaults")
    \o visit_args(a, p, "kwonlyargs", by)
    \o visit_defaults(a, p, "kw_defaults")
    \o _visit_arg(a.kwarg, Append(p, Step("kwarg", 0)), by)

visit_FunctionDef(n, p) ==
    <<WriteCall(n.name, p, p)>>
    \o _visit_arguments(n.args, Append(p, Step("args", 0)), p)
    \o <<GenericCall(p)>>

visit_AsyncFunctionDef(n, p) ==
    <<WriteCall(n.name, p, p)>>
    \o _visit_arguments(n.args, Append(p, Step("args", 0)), p)
    \o <<GenericCall(p)>>

write_names(n, p) == [i \in 1..Len(n.names) |-> WriteCall(n.names[i], p, p)]

visit_Global(n, p) == write_names(n, p) \o <<GenericCall(p)>>

visit_Nonlocal(n, p) == write_names(n, p) \o <<GenericCall(p)>>

visit_ClassDef(n, p) ==
    <<WriteCall(n.name, p, p)>>
    \o Flatten([i \in 1..Len(n.keywords) |->
                   _visit_keyword(n.keywords[i], Append(p, Step("keywords", i)), p)])
    \o <<GenericCall(p)>>

\* The kinds the Visitor has a visit_<kind> method for.
RuleKinds ==
    {"Name", "Call", "Attribute", "Import", "ImportFrom", "MatchAs", "FunctionDef",
     "Global", "Nonlocal", "ClassDef", "AsyncFunctionDef"}

\* NodeVisitor.visit: the calls visit_<kind> makes, generic_visit for a kind
\* without a method.
visit(n, p) ==
    CASE n.kind = "Name" -> visit_Name(n, p)
      [] n.kind = "Call" -> visit_Call(n, p)
      [] n.kind = "Attribute" -> visit_Attribute(n, p)
      [] n.kind = "Import" -> visit_Import(n, p)
      [] n.kind = "ImportFrom" -> visit_ImportFrom(n, p)
      [] n.kind = "MatchAs" -> visit_MatchAs(n, p)
      [] n.kind = "FunctionDef" -> visit_FunctionDef(n, p)
      [] n.kind = "Global" -> visit_Global(n, p)
      [] n.kind = "Nonlocal" -> visit_Nonlocal(n, p)
      [] n.kind = "ClassDef" -> visit_ClassDef(n, p)
      [] n.kind = "AsyncFunctionDef" -> visit_AsyncFunctionDef(n, p)
      [] OTHER -> <<GenericCall(p)>>

\* generic_visit that stops after the first child.
generic_visit_first(n, p) ==
    LET cs == Children(n, p) IN [i \in 1..(IF Len(cs) > 0 THEN 1 ELSE 0) |-> VisitCall(cs[i])]

\* NodeVisitor.generic_visit: visit each child.
generic_visit(n, p) ==
    LET cs == Children(n, p) IN [i \in 1..Len(cs) |-> VisitCall(cs[i])]

\* The row _write hands to writer.writerow; `node` and `by` record which
\* node's position it carries and which node's visit wrote it.
Row(name, n, fname, p, by) ==
    [name |-> name, line |-> n.lineno, column |-> n.col_offset + 1, file |-> fname,
     node |-> p, by |-> by]


(***************************************************************************)
(* The input: the programs the files of a run hold.                        *)
(***************************************************************************)
MaxChain == 2
MaxArgs == 1
MaxKeywords == 2
MaxSegments == 3
MaxAliases == 2
MaxParams == 1
MaxUnits == 2

SeqsUpTo(S, n) == UNION {[1..k -> S] : k \in 0..n}
SeqsFrom(S, m, n) == UNION {[1..k -> S] : k \in m..n}

Letters == <<"b", "c", "d", "e">>

RECURSIVE Chain(_, _)
\* base.b, base.b.c, ...
Chain(base, n) == IF n = 0 THEN base ELSE Attribute(Chain(base, n - 1), <<Letters[n]>>)

Keywords ==
    {keyword(<<"k">>, Name(<<"v">>)),
     keyword(None, Name(<<"d">>)),
     keyword(<<"k", "w">>, Call(Name(<<"g">>), <<>>, <<keyword(<<"j">>, Constant)>>))}

Calls ==
    {Call(f, as, ks) :
        f \in {Name(<<"f">>), Attribute(Name(<<"o">>), <<"m">>)},
        as \in SeqsUpTo({Name(<<"x">>), Constant}, MaxArgs),
        ks \in SeqsUpTo(Keywords, MaxKeywords)}

Bases ==
    {Name(<<"a">>),
     Call(Name(<<"f">>), <<Name(<<"x">>)>>, <<keyword(<<"k">>, Name(<<"v">>))>>),
     Call(Chain(Name(<<"a">>), 1), <<>>, <<>>)}

Chains == {Chain(base, n) : base \in Bases, n \in 1..MaxChain}

Operands == {Name(<<"a">>), Constant, Chain(Name(<<"o">>), 1)}

NoArguments == arguments(<<>>, <<>>, NoNode, <<>>, <<>>, NoNode, <<>>)

Expressions ==
    Calls \cup Chains
    \cup {BinOp(l, r) : l, r \in Operands}
    \cup {Lambda(arguments(<<>>, <<arg(<<"x">>, NoNode)>>, NoNode, <<>>, <<>>, NoNode, <<>>),
                 BinOp(Name(<<"x">>), Name(<<"a">>)))}

Segments == <<<<"p", "k", "g">>, <<"s", "u", "b">>, <<"m", "o", "d">>, <<"x">>>>

\* pkg, pkg.sub, pkg.sub.mod, ...
DottedPath(n) == Join(SubSeq(Segments, 1, n))

Aliases == {alias(DottedPath(n), as) : n \in 1..MaxSegments, as \in {None, <<"m">>}}

Imports == {Import(names) : names \in SeqsFrom(Aliases, 1, MaxAliases)}

ImportFroms ==
    {ImportFrom(m, names, lv) :
        m \in {DottedPath(n) : n \in 1..MaxSegments},
        names \in SeqsFrom({alias(<<"n">>, None), alias(<<"n">>, <<"m">>)}, 1, MaxAliases),
        lv \in {0}}
    \cup {ImportFrom(None, <<alias(<<"n">>, as)>>, 1) : as \in {None, <<"m">>}}
    \cup {ImportFrom(DottedPath(1), <<alias(<<"*">>, None)>>, 1)}

Defaults ==
    {Name(<<"a">>), Chain(Name(<<"o">>), 1),
     Call(Name(<<"g">>), <<>>, <<keyword(<<"j">>, Constant)>>)}

Positionals ==
    {[i \in 1..k |-> arg(<<Letters[i + 1]>>, NoNode)] : k \in 0..MaxParams}
    \cup {<<arg(<<"x">>, Name(<<"T">>))>>}

KeywordOnly ==
    {<<<<>>, <<>>>>, <<<<arg(<<"k">>, NoNode)>>, <<NoNode>>>>}
    \cup {<<<<arg(<<"k">>, NoNode)>>, <<d>>>> : d \in Defaults}
    \cup {<<<<arg(<<"j">>, NoNode), arg(<<"k">>, NoNode)>>, <<NoNode, Name(<<"a">>)>>>>}

Signatures ==
    {arguments(po, ar, va, ko[1], ko[2], kw, df) :
        po \in {<<>>, <<arg(<<"p">>, NoNode)>>},
        ar \in Positionals,
        va \in {NoNode, arg(<<"v", "a">>, NoNode)},
        ko \in KeywordOnly,
        kw \in {NoNode, arg(<<"k", "w">>, NoNode)},
        df \in SeqsUpTo(Defaults, 1)}

Bodies == {<<Pass>>, <<Return(Chain(Name(<<"o">>), 1))>>}

FunctionDefs ==
    {FunctionDef(kind, <<"f">>, a, body, <<>>, NoNode) :
        kind \in {"FunctionDef", "AsyncFunctionDef"},
        a \in {s \in Signatures : Len(s.defaults) <= Len(s.posonlyargs) + Len(s.args)},
        body \in Bodies}
    \cup {FunctionDef("FunctionDef", <<"f">>, NoArguments, body, <<Name(<<"w">>)>>, Name(<<"R">>)) :
            body \in Bodies}
    \cup {FunctionDef("FunctionDef", <<"f">>, NoArguments,
            <<FunctionDef("AsyncFunctionDef", <<"g">>,
                arguments(<<>>, <<arg(<<"x">>, NoNode)>>, NoNode, <<>>, <<>>, NoNode,
                          <<Name(<<"a">>)>>),
                <<Nonlocal(<<<<"n">>>>), Pass>>, <<>>, NoNode)>>,
            <<>>, NoNode)}

ClassDefs ==
    {ClassDef(<<"C">>, bs, ks, body) :
        bs \in SeqsUpTo({Name(<<"B">>)}, 1),
        ks \in SeqsUpTo({keyword(<<"m", "e", "t", "a">>, Name(<<"M">>)),
                         keyword(None, Name(<<"d">>))}, 1),
        body \in {<<Pass>>,
                  <<FunctionDef("FunctionDef", <<"f">>,
                        arguments(<<>>, <<arg(<<"s">>, NoNode)>>, NoNode, <<>>, <<>>, NoNode, <<>>),
                        <<Pass>>, <<>>, NoNode)>>}}

Declarations ==
    {Global(names) : names \in SeqsFrom({<<"g">>, <<"h">>}, 1, 2)}
    \cup {Nonlocal(names) : names \in SeqsFrom({<<"g">>, <<"h">>}, 1, 2)}

Patterns ==
    {MatchAs(NoNode, None),
     MatchAs(NoNode, <<"x">>),
     MatchAs(MatchValue(Constant), <<"y">>),
     MatchValue(Chain(Name(<<"o">>), 1)),
     MatchSequence(<<MatchAs(NoNode, <<"h">>), MatchStar(<<"t">>)>>),
     MatchSequence(<<MatchAs(NoNode, None), MatchStar(None)>>)}

Matches ==
    {Match(Name(<<"v">>), <<match_case(p, <<Pass>>)>>) : p \in Patterns}
    \cup {Match(Name(<<"v">>),
                <<match_case(MatchValue(Constant), <<Expr(Name(<<"a">>))>>),
                  match_case(p, <<Pass>>)>>) : p \in Patterns}

Ifs ==
    {If(t, body, orelse) :
        t \in {Name(<<"c">>), BinOp(Name(<<"a">>), Constant),
               Call(Name(<<"f">>), <<>>, <<keyword(<<"k">>, Name(<<"v">>))>>)},
        body \in {<<Pass>>, <<Expr(Chain(Name(<<"a">>), 1))>>},
        orelse \in {<<>>, <<Import(<<alias(DottedPath(2), None)>>)>>}}

Statements ==
    {Expr(e) : e \in Expressions} \cup Imports \cup ImportFroms \cup FunctionDefs
    \cup ClassDefs \cup Declarations \cup Matches \cup Ifs

\* def f(x, y=1): return obj.attr
Example ==
    FunctionDef("FunctionDef", <<"f">>,
        arguments(<<>>, <<arg(<<"x">>, NoNode), arg(<<"y">>, NoNode)>>, NoNode, <<>>, <<>>,
                  NoNode, <<Constant>>),
        <<Return(Attribute(Name(<<"o", "b", "j">>), <<"a", "t", "t", "r">>))>>, <<>>, NoNode)

Programs ==
    {Module(<<s>>) : s \in Statements}
    \cup {Module(<<>>), Module(<<Example>>),
          Module(<<Import(<<alias(DottedPath(2), None)>>), Expr(Chain(Name(<<"p", "k", "g">>), 2))>>)}

\* The text of a file that ast.parse raises SyntaxError on.
Garbage == [kind |-> "SyntaxError"]

Corpus ==
    {Module(<<Example>>),
     Module(<<Import(<<alias(DottedPath(2), <<"m">>)>>)>>),
     Module(<<Expr(Chain(Name(<<"a">>), 2))>>),
     Garbage}

\* The files root.rglob("*.py") yields, each given by its contents; the i-th
\* file's path is i.
Batches ==
    {<<c>> : c \in Programs \cup {Garbage}} \cup SeqsFrom(Corpus, 2, MaxUnits) \cup {<<>>}

(***************************************************************************)
(* The run.                                                                *)
(***************************************************************************)
Init ==
    /\ batch \in Batches
    /\ cur = 0
    /\ status = "start"
    /\ root = NoNode
    /\ stack = <<>>
    /\ out = <<>>
    /\ sink = [calls |-> 0, raised |-> FALSE]
    /\ visitLog = <<>>
    /\ diag = <<>>

\* main, up to the loop: the writer is made and the header row written.
Start ==
    /\ status = "start"
    /\ status' = "loop"
    /\ UNCHANGED <<batch, cur, root, stack, out, sink, visitLog, diag>>

\* process_file without its except clause: the SyntaxError ends the run.
ProcessFileSyntaxErrorUncaught ==
    /\ status = "loop"
    /\ cur < Len(batch)
    /\ batch[cur + 1].kind = "SyntaxError"
    /\ cur' = cur + 1
    /\ status' = "aborted"
    /\ UNCHANGED <<batch, root, stack, out, sink, visitLog, diag>>

\* process_file on a file ast.parse raises SyntaxError on: it is reported
\* and the loop goes on.
ProcessFileSyntaxError ==
    /\ status = "loop"
    /\ cur < Len(batch)
    /\ batch[cur + 1].kind = "SyntaxError"
    /\ cur' = cur + 1
    /\ diag' = diag \o <<[msg |-> "Syntax error", file |-> cur + 1],
                         [msg |-> "Processed", file |-> cur + 1]>>
    /\ UNCHANGED <<batch, status, root, stack, out, sink, visitLog>>

\* process_file on a file that parses: visitor.visit(root) is called.
ProcessFile ==
    /\ status = "loop"
    /\ cur < Len(batch)
    /\ batch[cur + 1].kind # "SyntaxError"
    /\ cur' = cur + 1
    /\ root' = parse(batch[cur + 1])
    /\ stack' = <<VisitCall(<<>>)>>
    /\ status' = "visiting"
    /\ UNCHANGED <<batch, out, sink, visitLog, diag>>

Stamp(calls, mark) == [i \in 1..Len(calls) |-> [calls[i] EXCEPT !.mark = mark]]

\* A pending self.visit(node): the node's visit_<kind> method runs up to the
\* calls it makes.
Visit ==
    /\ status = "visiting"
    /\ Len(stack) > 0
    /\ stack[1].op = "visit"
    /\ LET p == stack[1].node IN
        /\ stack' = Stamp(visit(NodeAt(root, p), p), Len(out)) \o Tail(stack)
        /\ visitLog' = Append(visitLog, [file |-> cur, node |-> p])
    /\ UNCHANGED <<batch, cur, status, root, out, sink, diag>>

\* A pending self.generic_visit(node).
GenericVisit ==
    /\ status = "visiting"
    /\ Len(stack) > 0
    /\ stack[1].op = "generic_visit"
    /\ LET p == stack[1].node IN
        stack' = Stamp(generic_visit(NodeAt(root, p), p), stack[1].mark) \o Tail(stack)
    /\ UNCHANGED <<batch, cur, status, root, out, sink, visitLog, diag>>

\* A pending self._write(name, node) whose writerow returns.
Write ==
    /\ status = "visiting"
    /\ Len(stack) > 0
    /\ stack[1].op = "_write"
    /\ out' = Append(out, Row(stack[1].name, NodeAt(root, stack[1].node), cur,
                              stack[1].node, stack[1].by))
    /\ sink' = [sink EXCEPT !.calls = @ + 1]
    /\ stack' = Tail(stack)
    /\ UNCHANGED <<batch, cur, status, root, visitLog, diag>>

\* _write catching what writerow raises: the traversal goes on.
WriteRaisesCaught ==
    /\ status = "visiting"
    /\ Len(stack) > 0
    /\ stack[1].op = "_write"
    /\ sink' = [calls |-> sink.calls + 1, raised |-> TRUE]
    /\ stack' = Tail(stack)
    /\ UNCHANGED <<batch, cur, status, root, out, visitLog, diag>>

\* A pending self._write(name, node) whose writerow raises: no frame of the
\* visitor, of process_file or of main catches it, and the run ends.
WriteRaises ==
    /\ status = "visiting"
    /\ Len(stack) > 0
    /\ stack[1].op = "_write"
    /\ sink' = [calls |-> sink.calls + 1, raised |-> TRUE]
    /\ status' = "aborted"
    /\ stack' = <<>>
    /\ UNCHANGED <<batch, cur, root, out, visitLog, diag>>

\* visitor.visit(root) has returned: process_file returns and main reports
\* the file.
Processed ==
    /\ status = "visiting"
    /\ Len(stack) = 0
    /\ status' = "loop"
    /\ root' = NoNode
    /\ diag' = Append(diag, [msg |-> "Processed", file |-> cur])
    /\ UNCHANGED <<batch, cur, stack, out, sink, visitLog>>

\* The loop of main is over.
Finished ==
    /\ status = "loop"
    /\ cur = Len(batch)
    /\ status' = "done"
    /\ UNCHANGED <<batch, cur, root, stack, out, sink, visitLog, diag>>

Next ==
    \/ Start
    \/ ProcessFileSyntaxError
    \/ ProcessFile
    \/ Visit
    \/ GenericVisit
    \/ Write
    \/ WriteRaises
    \/ Processed
    \/ Finished

Spec == Init /\ [][Next]_vars


(***************************************************************************)
(* visitor.visit(node) run to its end with a sink that never raises: the   *)
(* rows it writes.                                                         *)
(***************************************************************************)
RECURSIVE RunCalls(_, _, _)
RunCalls(tree, calls, fname) ==
    IF Len(calls) = 0 THEN <<>>
    ELSE LET c == calls[1]
             n == NodeAt(tree, c.node)
         IN  CASE c.op = "visit" -> RunCalls(tree, visit(n, c.node) \o Tail(calls), fname)
               [] c.op = "generic_visit" ->
                     RunCalls(tree, generic_visit(n, c.node) \o Tail(calls), fname)
               [] OTHER ->
                     <<Row(c.name, n, fname, c.node, c.by)>> \o RunCalls(tree, Tail(calls), fname)

Occurrences(tree, p, fname) == RunCalls(tree, <<VisitCall(p)>>, fname)

(***************************************************************************)
(* What the properties are stated with.                                    *)
(***************************************************************************)
IsPrefix(p, q) == Len(p) <= Len(q) /\ SubSeq(q, 1, Len(p)) = p

RECURSIVE NodesUnder(_, _)
\* The paths of the node at p and of every node below it.
NodesUnder(tree, p) ==
    LET cs == Children(NodeAt(tree, p), p) IN
    {p} \cup UNION {NodesUnder(tree, cs[i]) : i \in 1..Len(cs)}

Count(s, Test(_)) == Len(SelectSeq(s, Test))

Triple(row) == <<row.name, row.line, row.column>>

Triples(rows) == [i \in 1..Len(rows) |-> Triple(rows[i])]

\* The name of a node written at the node's own position.
OwnTriple(name, n) == <<name, n.lineno, n.col_offset + 1>>

FunctionKinds == {"FunctionDef", "AsyncFunctionDef"}

\* The file batch[cur] parsed and its traversal has returned normally.
JustTraversed ==
    /\ status \in {"loop", "done"}
    /\ cur >= 1
    /\ batch[cur].kind # "SyntaxError"

Visits(f, p) == Count(visitLog, LAMBDA v : v.file = f /\ v.node = p)

RowsBy(f, p) == SelectSeq(out, LAMBDA r : r.file = f /\ r.by = p)

\* The call on top of the stack.
Top == stack[1]

OnTop(op, kinds) ==
    /\ status = "visiting"
    /\ Len(stack) > 0
    /\ Top.op = op
    /\ NodeAt(root, Top.node).kind \in kinds

\* The rows written since the visit that made the call on top began.
Emitted == SubSeq(out, Top.mark + 1, Len(out))

\* C1: each name-reference node is visited once and produces exactly one
\* occurrence, its name at its own position, wherever it sits in the tree.
C1_NameOnce ==
    JustTraversed =>
        LET tree == parse(batch[cur]) IN
        \A p \in NodesUnder(tree, <<>>) :
            LET n == NodeAt(tree, p) IN
            n.kind = "Name" =>
                /\ Visits(cur, p) = 1
                /\ Count(out, LAMBDA r : r.file = cur /\ r.node = p
                                          /\ Triple(r) = OwnTriple(n.id, n)) = 1

\* C5: every occurrence handed to the sink has a name that is a non-empty
\* string.
C5_NameNonEmpty ==
    \A i \in 1..Len(out) : out[i].name # None /\ Len(out[i].name) > 0

\* A node without a name its kind's rule writes unconditionally.
LacksRequiredName(n) ==
    \/ n.kind = "MatchAs" /\ ~Truthy(n.name)
    \/ n.kind = "alias" /\ ~Truthy(n.name)

\* C8: the traversal does not go on past a node that lacks a required name,
\* and emits no occurrence for it.
C8_FailFast ==
    status = "visiting" =>
        /\ \A i \in 1..Len(visitLog) :
              visitLog[i].file = cur => ~LacksRequiredName(NodeAt(root, visitLog[i].node))
        /\ \A i \in 1..Len(out) :
              out[i].file = cur => ~LacksRequiredName(NodeAt(root, out[i].node))


\* C4: every occurrence of an attribute name comes right after all the
\* occurrences of its base expression; when a visit of an attribute access
\* writes the attribute name, its base has been visited whole: every row
\* written since the visit began comes from the base, and nothing of the base
\* is still pending.
C4_AttributePostOrder ==
    /\ OnTop("_write", {"Attribute"}) =>
          LET p == Top.node
              base == Append(p, Step("value", 0))
          IN  /\ Top.name = NodeAt(root, p).attr
              /\ \A q \in NodesUnder(root, base) : Visits(cur, q) >= Visits(cur, p)
              /\ Visits(cur, base) = Visits(cur, p)
              /\ \A i \in 1..Len(Emitted) : IsPrefix(base, Emitted[i].by)
              /\ \A j \in 2..Len(stack) : ~IsPrefix(base, stack[j].node)
    /\ status = "visiting" =>
          \A j \in 1..Len(out) :
              (out[j].file = cur /\ NodeAt(root, out[j].by).kind = "Attribute") =>
                  LET before == Occurrences(root, Append(out[j].by, Step("value", 0)), cur) IN
                  /\ Len(before) < j
                  /\ SubSeq(out, j - Len(before), j - 1) = before

\* C4 happens: a.b.c over a call base, the row of c written last.
C4_Witness ==
    /\ status = "visiting"
    /\ Len(out) >= 3
    /\ out[Len(out)].file = cur
    /\ LET r == out[Len(out)]
           n == NodeAt(root, r.node)
       IN  /\ n.kind = "Attribute"
           /\ r.name = <<"c">>
           /\ n.value.kind = "Attribute"
           /\ n.value.value.kind = "Call"
           /\ out[Len(out) - 1].name = <<"b">>
           /\ Len(n.value.value.keywords) > 0

\* C6: once a writerow has raised, the run is aborted and stays so: the sink
\* is not called again, no node is visited, no row is written and the file is
\* not reported as processed.
C6_SinkAbortPropagates ==
    [][/\ sink'.raised => status' = "aborted" /\ stack' = <<>>
       /\ sink.raised =>
            /\ sink' = sink
            /\ out' = out
            /\ visitLog' = visitLog
            /\ diag' = diag]_vars

\* C6 happens: the second writerow of a traversal raised, with calls pending
\* and the tree not yet visited whole.
C6_Witness ==
    /\ sink.raised
    /\ sink.calls = 2
    /\ Len(out) = 1
    /\ status = "aborted"
    /\ \E p \in NodesUnder(root, <<>>) : Visits(cur, p) = 0

\* The rows a run writes when no writerow raises: those of each file that
\* parses, in the order of the files.
Complete ==
    Flatten([f \in 1..Len(batch) |->
                IF batch[f].kind = "SyntaxError" THEN <<>>
                ELSE Occurrences(parse(batch[f]), <<>>, f)])

NamedKinds == RuleKinds \ {"Call"}

\* C9: a node of a kind without a rule writes no row, its visit never
\* fails, and every child of it is visited, so that each node below it that
\* bears a name has its row.
C9_UnknownKindRecursed ==
    /\ status = "visiting" =>
          \A i \in 1..Len(out) :
              out[i].file = cur => NodeAt(root, out[i].by).kind \in RuleKinds
    /\ status = "aborted" => sink.raised
    /\ JustTraversed =>
          LET tree == parse(batch[cur]) IN
          \A p \in NodesUnder(tree, <<>>) :
              (NodeAt(tree, p).kind \notin RuleKinds /\ Visits(cur, p) > 0) =>
                  /\ Len(RowsBy(cur, p)) = 0
                  /\ LET cs == Children(NodeAt(tree, p), p) IN
                     \A i \in 1..Len(cs) : Visits(cur, cs[i]) > 0
                  /\ \A q \in NodesUnder(tree, p) :
                        NodeAt(tree, q).kind \in NamedKinds => Len(RowsBy(cur, q)) > 0

\* C9 happens: a traversal has returned whose tree holds an operator, a
\* literal and a control-flow statement above a name.
C9_Witness ==
    /\ JustTraversed
    /\ LET tree == parse(batch[cur])
           kinds == {NodeAt(tree, p).kind : p \in NodesUnder(tree, <<>>)}
       IN  {"If", "BinOp", "Add", "Constant", "Load", "Name", "Attribute"} \subseteq kinds

\* The keyword arguments of a call that have a parameter name.
NamedKeywords(n) == SelectSeq(n.keywords, LAMBDA k : k.arg # None)

\* C10: a call writes, before it visits anything below it, one row per
\* keyword argument that has a name, in argument order, and the run holds
\* exactly those rows of the call: one per named keyword, none for the callee
\* or the arguments, which are visited.
C10_CallKeywords ==
    /\ OnTop("generic_visit", {"Call"}) =>
          LET n == NodeAt(root, Top.node)
              ks == NamedKeywords(n)
          IN  /\ Triples(Emitted) = [i \in 1..Len(ks) |-> OwnTriple(ks[i].arg, ks[i])]
              /\ \A i \in 1..Len(Emitted) : Emitted[i].by = Top.node
    /\ JustTraversed =>
          LET tree == parse(batch[cur]) IN
          \A p \in NodesUnder(tree, <<>>) :
              LET n == NodeAt(tree, p)
                  ks == NamedKeywords(n)
              IN  n.kind = "Call" =>
                      /\ Triples(RowsBy(cur, p)) =
                            [i \in 1..Len(ks) |-> OwnTriple(ks[i].arg, ks[i])]
                      /\ LET cs == Children(n, p) IN
                         \A i \in 1..Len(cs) : Visits(cur, cs[i]) > 0

\* The segments of a dotted path of the input, as it was put together.
SegmentsOf(name) ==
    IF \E k \in 1..Len(Segments) : name = DottedPath(k)
    THEN SubSeq(Segments, 1, CHOOSE k \in 1..Len(Segments) : name = DottedPath(k))
    ELSE <<name>>

SegmentTriples(name, n) ==
    LET segs == SegmentsOf(name) IN [i \in 1..Len(segs) |-> OwnTriple(segs[i], n)]

\* The rows of an import or import-from statement n: the segments of the
\* from-module path at the statement's position, then for each entry the
\* segments of its name, at the position of PathNode(entry) when n is an
\* import statement, and its alias.
ImportTriples(n, PathNode(_)) ==
    (IF n.kind = "ImportFrom" /\ n.module # None THEN SegmentTriples(n.module, n) ELSE <<>>)
    \o Flatten([i \in 1..Len(n.names) |->
                   SegmentTriples(n.names[i].name,
                                  IF n.kind = "Import" THEN PathNode(n.names[i]) ELSE n.names[i])
                   \o (IF n.names[i].asname # None
                       THEN <<OwnTriple(n.names[i].asname, n.names[i])>> ELSE <<>>)])

\* C2 as claimed: one occurrence per segment of a dotted path, left to right,
\* each at the position of the enclosing import statement.
C2_SegmentsAtStatement ==
    OnTop("generic_visit", {"Import", "ImportFrom"}) =>
        LET n == NodeAt(root, Top.node) IN
        Triples(Emitted) = ImportTriples(n, LAMBDA a : n)

\* C2 amended: one occurrence per segment of a dotted path, left to right,
\* each at the position of the import entry (the alias node) that names the
\* path; the segments of a from-module path are at the statement's position.
C2_SegmentsAtAlias ==
    OnTop("generic_visit", {"Import", "ImportFrom"}) =>
        LET n == NodeAt(root, Top.node) IN
        Triples(Emitted) = ImportTriples(n, LAMBDA a : a)

\* C2 happens: import pkg.sub.mod has written its three rows, none at the
\* column of the statement.
C2_Witness ==
    /\ OnTop("generic_visit", {"Import"})
    /\ LET n == NodeAt(root, Top.node) IN
        /\ n.names[1].name = DottedPath(3)
        /\ Len(Emitted) >= 3
        /\ Emitted[1].name = <<"p", "k", "g">>
        /\ Emitted[3].name = <<"m", "o", "d">>
        /\ Emitted[3].column # n.col_offset + 1

ArgTriples(as) == [i \in 1..Len(as) |-> OwnTriple(as[i].arg, as[i])]

OptionalArgTriples(a) == IF a = NoNode THEN <<>> ELSE <<OwnTriple(a.arg, a)>>

\* The occurrences of the default expressions args[f] of the function at p.
DefaultTriples(p, f) ==
    LET ds == NodeAt(root, p).args[f] IN
    Flatten([i \in 1..Len(ds) |->
                IF ds[i] = NoNode THEN <<>>
                ELSE Triples(Occurrences(root, p \o <<Step("args", 0), Step(f, i)>>, cur))])

\* C3 as claimed: what a function definition has written when its body is
\* about to be visited is its name, the positional-only, positional,
\* variadic-positional and keyword-only parameter names, the occurrences of
\* the keyword-only defaults, and the variadic-keyword name.
C3_BeforeBody ==
    (/\ status = "visiting"
     /\ Len(stack) > 0
     /\ Top.op = "visit"
     /\ Len(Top.node) > 0
     /\ Top.node[Len(Top.node)] = Step("body", 1)
     /\ NodeAt(root, SubSeq(Top.node, 1, Len(Top.node) - 1)).kind \in FunctionKinds) =>
        LET p == SubSeq(Top.node, 1, Len(Top.node) - 1)
            n == NodeAt(root, p)
        IN  Triples(Emitted) =
                <<OwnTriple(n.name, n)>>
                \o ArgTriples(n.args.posonlyargs)
                \o ArgTriples(n.args.args)
                \o OptionalArgTriples(n.args.vararg)
                \o ArgTriples(n.args.kwonlyargs)
                \o DefaultTriples(p, "kw_defaults")
                \o OptionalArgTriples(n.args.kwarg)

\* C3 amended: what the rule of a function definition has written when it
\* calls generic_visit is, in this order, the function name, the
\* positional-only and positional parameter names, the variadic-positional
\* name, the occurrences of the positional defaults, the keyword-only
\* parameter names, the occurrences of the keyword-only defaults and the
\* variadic-keyword name; an absent variadic parameter writes nothing.
C3_RuleOrder ==
    OnTop("generic_visit", FunctionKinds) =>
        LET p == Top.node
            n == NodeAt(root, p)
        IN  Triples(Emitted) =
                <<OwnTriple(n.name, n)>>
                \o ArgTriples(n.args.posonlyargs)
                \o ArgTriples(n.args.args)
                \o OptionalArgTriples(n.args.vararg)
                \o DefaultTriples(p, "defaults")
                \o ArgTriples(n.args.kwonlyargs)
                \o DefaultTriples(p, "kw_defaults")
                \o OptionalArgTriples(n.args.kwarg)

\* C3 happens: a definition with every slot filled has written its rows, the
\* variadic-keyword name last, after the row of a keyword-only default.
C3_Witness ==
    /\ OnTop("generic_visit", FunctionKinds)
    /\ LET a == NodeAt(root, Top.node).args IN
        /\ Len(a.posonlyargs) > 0
        /\ Len(a.args) > 0
        /\ a.vararg # NoNode
        /\ Len(a.defaults) > 0
        /\ Len(a.kwonlyargs) > 0
        /\ a.kw_defaults[Len(a.kw_defaults)] # NoNode
        /\ a.kwarg # NoNode
        /\ Emitted[Len(Emitted)].name = a.kwarg.arg
        /\ Len(Emitted) >= 8

====
